---------------------------- MODULE Spec2Model ----------------------------
(***************************************************************************)
(* A model of midjourney-prompt (src/src/main.rs): the Prompt form state,  *)
(* the command synthesizer Prompt::command, the per-frame handler          *)
(* Prompt::update, the close handler Prompt::on_close_event and the        *)
(* start-up load in main.                                                  *)
(*                                                                         *)
(* A Rust String is modelled as a sequence of one-character strings, so    *)
(* that trimming, formatting and concatenation are computed and not        *)
(* assumed.  A (String, bool) suffix entry is the tuple <<label, enabled>>.*)
(***************************************************************************)
EXTENDS Integers, Sequences, FiniteSets, TLC

VARIABLES
    pc,     \* "input"/"synth" (pure-function runs); "start", "running", "closed", "crashed"
    form,   \* the Prompt struct (main.rs:40-54)
    file,   \* the contents of <data-local-dir>/midjourney_prompt/promt.yaml
    obs,    \* what the last handler did: its inputs, intermediate values and external calls
    loaded, \* the Prompt main() constructed for the running process
    frames, \* number of update() calls made so far
    life    \* number of main()/on_close_event() calls made so far

vars == <<pc, form, file, obs, loaded, frames, life>>

---------------------------------------------------------------------------
(* Bounds of the exploration. *)

\* longest suffix list explored
MaxSuffixes == 2
\* update() calls explored per behaviour of Spec
MaxFrames == 1
\* update() calls explored per behaviour of SpecCopy
MaxCopyFrames == 2
\* update() calls explored per behaviour of SpecSuffixes
MaxSuffixFrames == 3
\* main()/on_close_event() calls explored per behaviour
MaxLife == 3

---------------------------------------------------------------------------
(* String literals of the program, as character sequences. *)

StrImagine == <<"/", "i", "m", "a", "g", "i", "n", "e", " ", "p", "r", "o", "m", "p", "t", ":", " ">>
StrComma == <<",", " ">>
StrStylize == <<" ", "-", "-", "s", "t", "y", "l", "i", "z", "e", " ">>
StrAr == <<" ", "-", "-", "a", "r", " ">>
StrColon == <<":">>
StrVideo == <<" ", "-", "-", "v", "i", "d", "e", "o">>
StrSameseed == <<" ", "-", "-", "s", "a", "m", "e", "s", "e", "e", "d", " ">>
StrDashes == <<" ", "-", "-">>
StrCopied == <<"c", "o", "p", "i", "e", "d", " ", "c", "o", "m", "m", "a", "n", "d", ":", "\n">>
StrError == <<"e", "r", "r", "o", "r", " ", "c", "o", "p", "y", "i", "n", "g", " ", "c", "o", "m", "m", "a", "n", "d", ":", " ">>
StrRealistic == <<"r", "e", "a", "l", "i", "s", "t", "i", "c">>

DEFAULT_STYLIZE == 2500

Algorithms == {"V3", "Test", "TestPhoto"}

\* Algorithm::str
AlgorithmStr(a) ==
    CASE a = "V3" -> <<"v", "3">>
      [] a = "Test" -> <<"t", "e", "s", "t">>
      [] a = "TestPhoto" -> <<"t", "e", "s", "t", "p">>

---------------------------------------------------------------------------
(* str::trim and integer Display, as the formatting in command() uses them. *)

IsWhitespace(c) == c \in {" ", "\n"}

RECURSIVE TrimStart(_)
TrimStart(s) ==
    IF s # <<>> /\ IsWhitespace(Head(s)) THEN TrimStart(Tail(s)) ELSE s

RECURSIVE TrimEnd(_)
TrimEnd(s) ==
    IF s # <<>> /\ IsWhitespace(s[Len(s)]) THEN TrimEnd(SubSeq(s, 1, Len(s) - 1)) ELSE s

trim(s) == TrimEnd(TrimStart(s))

DigitChar(d) == <<"0", "1", "2", "3", "4", "5", "6", "7", "8", "9">>[d + 1]

\* "{}" of an unsigned integer: its decimal digits, no sign, no padding
RECURSIVE Display(_)
Display(n) ==
    IF n < 10 THEN <<DigitChar(n)>> ELSE Display(n \div 10) \o <<DigitChar(n % 10)>>

---------------------------------------------------------------------------
(* Prompt::command (main.rs:84-107). *)

\* the loop of main.rs:86-90 on accumulator s ("enabled" ignored)
RECURSIVE WriteSuffixesIgnoringEnabled(_, _)
WriteSuffixesIgnoringEnabled(s, suffixes) ==
    IF suffixes = <<>> THEN s
    ELSE LET e == Head(suffixes)
         IN  WriteSuffixesIgnoringEnabled(
                 IF trim(e[1]) # <<>> THEN s \o StrComma \o trim(e[1]) ELSE s,
                 Tail(suffixes))

\* the loop of main.rs:86-90 on accumulator s
RECURSIVE WriteSuffixes(_, _)
WriteSuffixes(s, suffixes) ==
    IF suffixes = <<>> THEN s
    ELSE LET e == Head(suffixes)
         IN  WriteSuffixes(
                 IF e[2] /\ trim(e[1]) # <<>> THEN s \o StrComma \o trim(e[1]) ELSE s,
                 Tail(suffixes))

\* command() with the video clause written after the seed clause
commandVideoAfterSeed(p) ==
    LET s0 == StrImagine \o trim(p.text)
        s1 == WriteSuffixes(s0, p.suffixes)
        s2 == IF p.stylize # DEFAULT_STYLIZE
              THEN s1 \o StrStylize \o Display(p.stylize) ELSE s1
        s3 == IF <<p.aspect_w, p.aspect_h>> # <<1, 1>>
              THEN s2 \o StrAr \o Display(p.aspect_w) \o StrColon \o Display(p.aspect_h)
              ELSE s2
        s4 == IF p.use_seed THEN s3 \o StrSameseed \o Display(p.seed) ELSE s3
        s5 == IF p.video THEN s4 \o StrVideo ELSE s4
        s6 == IF p.algorithm # "V3" THEN s5 \o StrDashes \o AlgorithmStr(p.algorithm) ELSE s5
    IN  s6

command(p) ==
    LET s0 == StrImagine \o trim(p.text)
        s1 == WriteSuffixes(s0, p.suffixes)
        s2 == IF p.stylize # DEFAULT_STYLIZE
              THEN s1 \o StrStylize \o Display(p.stylize) ELSE s1
        s3 == IF <<p.aspect_w, p.aspect_h>> # <<1, 1>>
              THEN s2 \o StrAr \o Display(p.aspect_w) \o StrColon \o Display(p.aspect_h)
              ELSE s2
        s4 == IF p.video THEN s3 \o StrVideo ELSE s3
        s5 == IF p.use_seed THEN s4 \o StrSameseed \o Display(p.seed) ELSE s4
        s6 == IF p.algorithm # "V3" THEN s5 \o StrDashes \o AlgorithmStr(p.algorithm) ELSE s5
    IN  s6

---------------------------------------------------------------------------
(* The Prompt struct. *)

\* the struct literal of main.rs:11-23
DefaultPrompt ==
    [ text           |-> <<>>,
      suffixes       |-> << <<StrRealistic, FALSE>> >>,
      algorithm      |-> "V3",
      aspect_w       |-> 1,
      aspect_h       |-> 1,
      stylize        |-> DEFAULT_STYLIZE,
      use_seed       |-> FALSE,
      seed           |-> 0,
      video          |-> FALSE,
      copy_on_change |-> TRUE,
      copied_command |-> <<>> ]

\* no handler has run yet
NoObs == [kind |-> "none"]
\* promt.yaml does not exist
NoFile == [kind |-> "missing"]

\* sequences over S of length at most n
SeqUpTo(S, n) == UNION { [1..k -> S] : k \in 0..n }

---------------------------------------------------------------------------
(* One frame's user input to update(): what each widget reports this frame. *)
(* An Option is a sequence of length 0 (None) or 1 (Some).                  *)

None == <<>>
Some(v) == <<v>>
IsSome(o) == o # <<>>

IdleRow == [label |-> None, check |-> FALSE, minus |-> FALSE]

\* a frame in which the user touches nothing
Idle ==
    [ coc_check  |-> FALSE,   \* "copy on change" checkbox toggled
      text       |-> None,    \* prompt TextEdit: the new text
      algo       |-> None,    \* selectable_value clicked
      drag_w     |-> None,    \* DragValue aspect_w: the value dragged or typed
      drag_h     |-> None,    \* DragValue aspect_h: the value dragged or typed
      preset     |-> 0,       \* index of the preset clicked, 0 if none
      slider     |-> None,    \* stylize Slider: the value dragged or typed
      reset      |-> FALSE,   \* "reset" clicked
      seed_check |-> FALSE,   \* seed checkbox toggled
      drag_seed  |-> None,    \* DragValue seed
      video_check |-> FALSE,  \* video checkbox toggled
      rows       |-> <<>>,    \* per suffix row: label edit, checkbox, "-"
      plus       |-> FALSE,   \* "+" clicked
      copy       |-> FALSE ]  \* "copy" clicked

RowIn(in, i) == IF i <= Len(in.rows) THEN in.rows[i] ELSE IdleRow

---------------------------------------------------------------------------
(* The widgets of update() (main.rs:118-250). *)

Clamp(v, lo, hi) == IF v < lo THEN lo ELSE IF v > hi THEN hi ELSE v

\* DragValue::new(&mut self.aspect_w).clamp_range(1..=21) without the upper clamp
DragAspectWUnclamped(cur, o) == IF IsSome(o) THEN Clamp(o[1], 1, 65535) ELSE cur

\* DragValue::new(&mut self.aspect_w).clamp_range(1..=21)  (main.rs:156-160)
DragAspectW(cur, o) == IF IsSome(o) THEN Clamp(o[1], 1, 21) ELSE cur

\* DragValue::new(&mut self.aspect_h).clamp_range(1..=10)  (main.rs:162-166)
DragAspectH(cur, o) == IF IsSome(o) THEN Clamp(o[1], 1, 10) ELSE cur

\* the preset list of main.rs:171-181
Presets ==
    << <<1, 1>>, <<1, 2>>, <<1, 3>>, <<2, 3>>, <<3, 2>>, <<3, 4>>, <<4, 3>>,
       <<16, 9>>, <<21, 9>> >>

\* Slider::new(&mut self.stylize, 625..=60000)  (main.rs:200-202)
SliderStylize(cur, o) == IF IsSome(o) THEN Clamp(o[1], 625, 60000) ELSE cur

\* the suffix rows, "+" and "-" with the new entry inserted first instead of pushed
SuffixRowsPushFront(suffixes, in) ==
    LET n == Len(suffixes)
        row(i) == << IF IsSome(RowIn(in, i).label) THEN RowIn(in, i).label[1] ELSE suffixes[i][1],
                     IF RowIn(in, i).check THEN ~suffixes[i][2] ELSE suffixes[i][2] >>
        edited == [i \in 1..n |-> row(i)]
        clicked == { i \in 1..n : RowIn(in, i).minus }
        removed == IF clicked = {} THEN edited
                   ELSE LET r == CHOOSE i \in clicked : \A j \in clicked : j <= i
                        IN  SubSeq(edited, 1, r - 1) \o SubSeq(edited, r + 1, n)
    IN  IF in.plus THEN << <<<<>>, TRUE>> >> \o removed ELSE removed

\* the suffix rows, "+" and "-" (main.rs:226-248): rows are edited in place,
\* to_remove keeps the last "-" clicked, the push precedes the removal
SuffixRows(suffixes, in) ==
    LET n == Len(suffixes)
        row(i) == << IF IsSome(RowIn(in, i).label) THEN RowIn(in, i).label[1] ELSE suffixes[i][1],
                     IF RowIn(in, i).check THEN ~suffixes[i][2] ELSE suffixes[i][2] >>
        edited == [i \in 1..n |-> row(i)]
        clicked == { i \in 1..n : RowIn(in, i).minus }
        pushed == IF in.plus THEN Append(edited, <<<<>>, TRUE>>) ELSE edited
    IN  IF clicked = {} THEN pushed
        ELSE LET to_remove == CHOOSE i \in clicked : \A j \in clicked : j <= i
             IN  SubSeq(pushed, 1, to_remove - 1) \o SubSeq(pushed, to_remove + 1, Len(pushed))

\* the form after the widgets of one frame, before the copy decision
\* (main.rs:118-250), in the order the widgets are laid out
Edited(p, in) ==
    LET coc == IF in.coc_check THEN ~p.copy_on_change ELSE p.copy_on_change
        text == IF IsSome(in.text) THEN in.text[1] ELSE p.text
        algorithm == IF IsSome(in.algo) THEN in.algo[1] ELSE p.algorithm
        w1 == DragAspectW(p.aspect_w, in.drag_w)
        h1 == DragAspectH(p.aspect_h, in.drag_h)
        w2 == IF in.preset # 0 THEN Presets[in.preset][1] ELSE w1
        h2 == IF in.preset # 0 THEN Presets[in.preset][2] ELSE h1
        st1 == SliderStylize(p.stylize, in.slider)
        st2 == IF st1 # DEFAULT_STYLIZE /\ in.reset THEN DEFAULT_STYLIZE ELSE st1
        use_seed == IF in.seed_check THEN ~p.use_seed ELSE p.use_seed
        seed == IF use_seed /\ IsSome(in.drag_seed) THEN in.drag_seed[1] ELSE p.seed
        video == IF in.video_check THEN ~p.video ELSE p.video
    IN  [ text           |-> text,
          suffixes       |-> SuffixRows(p.suffixes, in),
          algorithm      |-> algorithm,
          aspect_w       |-> w2,
          aspect_h       |-> h2,
          stylize        |-> st2,
          use_seed       |-> use_seed,
          seed           |-> seed,
          video          |-> video,
          copy_on_change |-> coc,
          copied_command |-> p.copied_command ]

---------------------------------------------------------------------------
(* The copy decision and the clipboard call of update() (main.rs:256-271). *)

\* copy_to_clipboard, firing on every frame when copy_on_change is set
CopyEveryFrame(p, old_command, click) ==
    \/ p.copy_on_change
    \/ ~p.copy_on_change /\ trim(p.text) # <<>> /\ click

\* copy_to_clipboard (main.rs:256-260); the "copy" button is enabled, and so
\* can report a click, only when the trimmed text is non-empty
CopyToClipboard(p, old_command, click) ==
    \/ p.copy_on_change /\ command(p) # old_command
    \/ ~p.copy_on_change /\ trim(p.text) # <<>> /\ click

\* the guard of main.rs:261 without the text test
ClipboardGuardNoText(copy_to_clipboard, p) == copy_to_clipboard

\* the guard of main.rs:261
ClipboardGuard(copy_to_clipboard, p) == copy_to_clipboard /\ trim(p.text) # <<>>

\* What the clipboard capability answers when it is called:
\*   "ok"          ClipboardContext::new() and set_contents() both succeed
\*   "err"         set_contents() returns Err(e)
\*   "unavailable" ClipboardContext::new() returns Err, which is unwrapped
ClipboardAnswers == {"ok", "err", "unavailable"}

\* Display of the clipboard error e
StrE == <<"E">>

\* the value assigned to copied_command (main.rs:262-270)
CopiedCommand(p, answer) ==
    IF answer = "ok" THEN StrCopied \o command(p) ELSE StrError \o StrE

---------------------------------------------------------------------------
(* Persistence: the derived Serialize/Deserialize of Prompt (main.rs:39-64). *)
(* The file holds either nothing ("missing"), bytes that are no YAML mapping *)
(* ("garbage"), or a YAML mapping from field names to values ("yaml").       *)

\* #[serde(rename_all = "lowercase")] on Algorithm
AlgorithmToken(a) ==
    CASE a = "V3" -> "v3"
      [] a = "Test" -> "test"
      [] a = "TestPhoto" -> "testphoto"

AlgorithmOfToken(t) ==
    CASE t = "v3" -> "V3"
      [] t = "test" -> "Test"
      [] t = "testphoto" -> "TestPhoto"

\* Serialize with use_seed and seed left out
SerializeWithoutSeed(p) ==
    [ suffixes       |-> p.suffixes,
      algorithm      |-> AlgorithmToken(p.algorithm),
      aspect_w       |-> p.aspect_w,
      aspect_h       |-> p.aspect_h,
      stylize        |-> p.stylize,
      video          |-> p.video,
      copy_on_change |-> p.copy_on_change ]

\* derive(Serialize): every field but the two #[serde(skip)] ones
Serialize(p) ==
    [ suffixes       |-> p.suffixes,
      algorithm      |-> AlgorithmToken(p.algorithm),
      aspect_w       |-> p.aspect_w,
      aspect_h       |-> p.aspect_h,
      stylize        |-> p.stylize,
      video          |-> p.video,
      copy_on_change |-> p.copy_on_change,
      use_seed       |-> p.use_seed,
      seed           |-> p.seed ]

PersistedFields ==
    {"suffixes", "algorithm", "aspect_w", "aspect_h", "stylize", "video",
     "copy_on_change", "use_seed", "seed"}

\* serde_yaml::from_slice(&bytes).ok() is Some: a mapping with every persisted
\* field (unknown ones are ignored), a known variant name, integers that fit
\* u16 and u32 (every natural number explored here is below 2^32)
CanDeserialize(f) ==
    /\ f.kind = "yaml"
    /\ PersistedFields \subseteq DOMAIN f.doc
    /\ f.doc.algorithm \in {"v3", "test", "testphoto"}
    /\ f.doc.aspect_w \in 0..65535
    /\ f.doc.aspect_h \in 0..65535
    /\ f.doc.stylize \in Nat
    /\ f.doc.seed \in Nat

\* derive(Deserialize): the skipped fields take String::default()
Deserialize(doc) ==
    [ text           |-> <<>>,
      suffixes       |-> doc.suffixes,
      algorithm      |-> AlgorithmOfToken(doc.algorithm),
      aspect_w       |-> doc.aspect_w,
      aspect_h       |-> doc.aspect_h,
      stylize        |-> doc.stylize,
      use_seed       |-> doc.use_seed,
      seed           |-> doc.seed,
      video          |-> doc.video,
      copy_on_change |-> doc.copy_on_change,
      copied_command |-> <<>> ]

---------------------------------------------------------------------------
(* main (main.rs:7-37): Prompt::path() unwraps dirs::data_local_dir(), then  *)
(* the file is read and parsed, any failure falling back to the literal.     *)

main ==
    /\ pc \in {"start", "closed", "crashed"}
    /\ life < MaxLife
    /\ \E dir_ok, read_ok \in BOOLEAN :
          LET parsed == dir_ok /\ read_ok /\ CanDeserialize(file)
              prompt == IF parsed THEN Deserialize(file.doc) ELSE DefaultPrompt
          IN  /\ (file.kind = "missing" => ~read_ok)
              /\ pc' = IF dir_ok THEN "running" ELSE "crashed"
              /\ form' = IF dir_ok THEN prompt ELSE form
              /\ loaded' = IF dir_ok THEN prompt ELSE loaded
              /\ obs' = [ kind     |-> "main",
                          source   |-> IF ~dir_ok THEN "panic"
                                       ELSE IF parsed THEN "file" ELSE "default",
                          read     |-> dir_ok /\ read_ok,
                          previous |-> form,
                          saved    |-> obs.kind = "close" /\ obs.write = "ok" ]
    /\ life' = life + 1
    /\ UNCHANGED <<file, frames>>

---------------------------------------------------------------------------
(* Prompt::update (main.rs:116-274) for one frame with input in; answer is  *)
(* what the clipboard does if it is called.                                  *)

update(in, answer, bound) ==
    /\ pc = "running"
    /\ frames < bound
    /\ LET old_command == command(form)
           edited == Edited(form, in)
           copy_to_clipboard == CopyToClipboard(edited, old_command, in.copy)
           call == ClipboardGuard(copy_to_clipboard, edited)
       IN  /\ answer \in (IF call THEN ClipboardAnswers ELSE {"unused"})
           /\ form' = IF call /\ answer # "unavailable"
                      THEN [edited EXCEPT !.copied_command = CopiedCommand(edited, answer)]
                      ELSE edited
           /\ pc' = IF call /\ answer = "unavailable" THEN "crashed" ELSE "running"
           /\ obs' = [ kind        |-> "update",
                       before      |-> form,
                       in          |-> in,
                       old_command |-> old_command,
                       edited      |-> edited,
                       calls       |-> IF call THEN 1 ELSE 0,
                       answer      |-> answer,
                       contents    |-> IF call /\ answer # "unavailable"
                                       THEN Some(command(edited)) ELSE None ]
    /\ frames' = frames + 1
    /\ UNCHANGED <<file, loaded, life>>

---------------------------------------------------------------------------
(* Prompt::on_close_event (main.rs:111-115).  dir() and path() unwrap        *)
(* dirs::data_local_dir(); the result of create_dir_all is dropped;          *)
(* serde_yaml::to_string(self) is unwrapped; the result of fs::write is      *)
(* dropped.  fs::write truncates the file before writing, so a failed write  *)
(* leaves the old contents ("err", the file could not be opened) or a        *)
(* truncated file ("partial").                                               *)

\* what the calls of the handler answer, in the order they are made; a call
\* after a panic is "skipped"
CloseOutcomes ==
    { [dir |-> "none", mkdir |-> "skipped", ser |-> "skipped", write |-> "skipped"],
      [dir |-> "some", mkdir |-> "ok", ser |-> "err", write |-> "skipped"],
      [dir |-> "some", mkdir |-> "err", ser |-> "err", write |-> "skipped"],
      [dir |-> "some", mkdir |-> "ok", ser |-> "ok", write |-> "ok"],
      [dir |-> "some", mkdir |-> "ok", ser |-> "ok", write |-> "err"],
      [dir |-> "some", mkdir |-> "ok", ser |-> "ok", write |-> "partial"],
      [dir |-> "some", mkdir |-> "err", ser |-> "ok", write |-> "err"] }

on_close_event ==
    /\ pc = "running"
    /\ life < MaxLife
    /\ \E o \in CloseOutcomes :
          LET panics == o.dir = "none" \/ o.ser = "err"
          IN  /\ pc' = IF panics THEN "crashed" ELSE "closed"
              /\ file' = CASE o.write = "ok" -> [kind |-> "yaml", doc |-> Serialize(form)]
                           [] o.write = "partial" -> [kind |-> "garbage"]
                           [] OTHER -> file
              /\ obs' = [ kind     |-> "close",
                          before   |-> form,
                          dir      |-> o.dir,
                          mkdir    |-> o.mkdir,
                          ser      |-> o.ser,
                          write    |-> o.write,
                          returned |-> IF panics THEN None ELSE Some(TRUE) ]
    /\ life' = life + 1
    /\ UNCHANGED <<form, loaded, frames>>

---------------------------------------------------------------------------
(* Files found at the first start. *)

DocInRange ==
    [ suffixes       |-> << << <<"r">>, TRUE >>, << <<" ", "s", " ">>, FALSE >> >>,
      algorithm      |-> "testphoto",
      aspect_w       |-> 16,
      aspect_h       |-> 9,
      stylize        |-> 5000,
      video          |-> TRUE,
      copy_on_change |-> FALSE,
      use_seed       |-> TRUE,
      seed           |-> 42 ]

\* a hand-edited file: every value fits its integer type
DocOutOfRange ==
    [DocInRange EXCEPT !.aspect_w = 0, !.aspect_h = 11, !.stylize = 100]

\* a file without the seed field
DocNoSeed == [f \in PersistedFields \ {"seed"} |-> DocInRange[f]]

DocUnknownAlgorithm == [DocInRange EXCEPT !.algorithm = "v4"]

DocNotU16 == [DocInRange EXCEPT !.aspect_w = 70000]

DocTwoSuffixes ==
    [ suffixes       |-> << << <<"x">>, TRUE >>, << <<" ", "y">>, FALSE >> >>,
      algorithm      |-> "v3",
      aspect_w       |-> 1,
      aspect_h       |-> 1,
      stylize        |-> 2500,
      video          |-> FALSE,
      copy_on_change |-> TRUE,
      use_seed       |-> FALSE,
      seed           |-> 0 ]

Yaml(doc) == [kind |-> "yaml", doc |-> doc]

Files ==
    { NoFile, [kind |-> "garbage"], Yaml(DocInRange), Yaml(DocOutOfRange),
      Yaml(DocNoSeed), Yaml(DocUnknownAlgorithm), Yaml(DocNotU16) }

CopyFiles == { NoFile, Yaml(DocInRange), Yaml(DocTwoSuffixes) }

SuffixFiles ==
    { NoFile, Yaml(DocTwoSuffixes), Yaml([DocTwoSuffixes EXCEPT !.suffixes = <<>>]) }

\* before main() has run there is no Prompt: form and loaded hold a placeholder
InitFrom(fs) ==
    /\ pc = "start"
    /\ form = DefaultPrompt
    /\ file \in fs
    /\ obs = NoObs
    /\ loaded = DefaultPrompt
    /\ frames = 0
    /\ life = 0

---------------------------------------------------------------------------
(* The frame inputs explored. *)

OneRow(n, i, r) == [j \in 1..n |-> IF j = i THEN r ELSE IdleRow]

\* Spec: one widget per frame, every widget of the form
SettingsInputs(p) ==
    LET n == Len(p.suffixes)
    IN  {Idle}
        \cup {[Idle EXCEPT !.coc_check = TRUE]}
        \cup {[Idle EXCEPT !.text = Some(<<"a">>)]}
        \cup {[Idle EXCEPT !.algo = Some(a)] : a \in Algorithms \ {p.algorithm}}
        \cup {[Idle EXCEPT !.drag_w = Some(v)] : v \in {0, 2, 22}}
        \cup {[Idle EXCEPT !.drag_h = Some(v)] : v \in {0, 11}}
        \cup {[Idle EXCEPT !.preset = i] : i \in 1..Len(Presets)}
        \cup {[Idle EXCEPT !.slider = Some(v)] : v \in {0, 5000, 70000}}
        \cup (IF p.stylize # DEFAULT_STYLIZE THEN {[Idle EXCEPT !.reset = TRUE]} ELSE {})
        \cup {[Idle EXCEPT !.seed_check = TRUE]}
        \cup (IF p.use_seed THEN {[Idle EXCEPT !.drag_seed = Some(7)]} ELSE {})
        \cup {[Idle EXCEPT !.video_check = TRUE]}
        \cup (IF n >= 1
              THEN {[Idle EXCEPT !.rows = OneRow(n, 1, [IdleRow EXCEPT !.check = TRUE])],
                    [Idle EXCEPT !.rows = OneRow(n, 1, [IdleRow EXCEPT !.minus = TRUE])]}
              ELSE {})
        \cup (IF n < MaxSuffixes THEN {[Idle EXCEPT !.plus = TRUE]} ELSE {})

CopyTexts == { <<>>, <<" ">>, <<"a">>, <<"a", " ">> }

\* SpecCopy: the edits that do or do not change the command, with and without
\* a toggle of "copy on change" and a click where the "copy" button is
CopyInputs(p) ==
    LET n == Len(p.suffixes)
        edits ==
            {Idle}
            \cup {[Idle EXCEPT !.text = Some(t)] : t \in CopyTexts \ {p.text}}
            \cup {[Idle EXCEPT !.video_check = TRUE]}
            \cup {[Idle EXCEPT !.slider = Some(5000)]}
            \cup (IF n >= 1
                  THEN {[Idle EXCEPT !.rows = OneRow(n, 1, [IdleRow EXCEPT !.check = TRUE])]}
                  ELSE {})
        settings == edits \cup {[e EXCEPT !.coc_check = TRUE] : e \in edits}
    IN  settings
        \cup {[e EXCEPT !.copy = TRUE] : e \in {d \in settings : ~Edited(p, d).copy_on_change}}

SuffixLabels == { <<>>, <<"x">>, <<" ", "y">> }

\* SpecSuffixes: label edits, checkbox, "-" and "+", alone and in one frame
SuffixInputs(p) ==
    LET n == Len(p.suffixes)
        rows ==
            {IdleRow, [IdleRow EXCEPT !.check = TRUE], [IdleRow EXCEPT !.minus = TRUE]}
            \cup {[IdleRow EXCEPT !.label = Some(l)] : l \in SuffixLabels}
            \cup {[IdleRow EXCEPT !.label = Some(<<"x">>), !.minus = TRUE]}
        touched == {Idle} \cup {[Idle EXCEPT !.rows = OneRow(n, i, r)] : i \in 1..n, r \in rows \ {IdleRow}}
    IN  { d \in touched : IsSome(d.rows) => \A i \in 1..n : IsSome(d.rows[i].label) => d.rows[i].label[1] # p.suffixes[i][1] }
        \cup { [d EXCEPT !.plus = TRUE] :
                   d \in { t \in touched :
                              /\ \A i \in 1..Len(t.rows) : ~IsSome(t.rows[i].label) /\ ~t.rows[i].check
                              /\ n < MaxSuffixes \/ \E i \in 1..Len(t.rows) : t.rows[i].minus } }

---------------------------------------------------------------------------
(* Spec: the whole life of the program: start, frames that touch any one    *)
(* widget, close, start again.                                               *)

UpdateSettings ==
    \E in \in SettingsInputs(form), answer \in ClipboardAnswers \cup {"unused"} :
        update(in, answer, MaxFrames)

Init == InitFrom(Files)

Next == main \/ UpdateSettings \/ on_close_event

Spec == Init /\ [][Next]_vars

(* SpecCopy: frames that edit, toggle "copy on change" and click "copy". *)

UpdateCopy ==
    \E in \in CopyInputs(form), answer \in ClipboardAnswers \cup {"unused"} :
        update(in, answer, MaxCopyFrames)

InitCopy == InitFrom(CopyFiles)

NextCopy == main \/ UpdateCopy

SpecCopy == InitCopy /\ [][NextCopy]_vars

(* SpecSuffixes: frames that work on the suffix rows. *)

UpdateSuffixes ==
    \E in \in SuffixInputs(form), answer \in ClipboardAnswers \cup {"unused"} :
        update(in, answer, MaxSuffixFrames)

InitSuffixes == InitFrom(SuffixFiles)

NextSuffixes == main \/ UpdateSuffixes

SpecSuffixes == InitSuffixes /\ [][NextSuffixes]_vars

---------------------------------------------------------------------------
(* SpecCommand: command() applied to every form of a bounded set. *)

CmdTexts == { <<>>, <<" ">>, <<"a">>, <<" ", "a", " ", "b", "\n">> }
CmdLabels == { <<>>, <<" ">>, <<"r">>, <<" ", "s", " ">> }
CmdSuffixes == SeqUpTo(CmdLabels \X BOOLEAN, MaxSuffixes)

CmdForms ==
    [ text           : CmdTexts,
      suffixes       : CmdSuffixes,
      algorithm      : Algorithms,
      aspect_w       : {1, 16},
      aspect_h       : {1, 9},
      stylize        : {DEFAULT_STYLIZE, 5000},
      use_seed       : BOOLEAN,
      seed           : {0, 42},
      video          : BOOLEAN,
      copy_on_change : {TRUE},
      copied_command : {<<>>} ]

InitCommand ==
    /\ pc = "input"
    /\ form \in CmdForms
    /\ file = NoFile
    /\ obs = NoObs
    /\ loaded = DefaultPrompt
    /\ frames = 0
    /\ life = 0

Synthesize ==
    /\ pc = "input"
    /\ pc' = "synth"
    /\ obs' = [kind |-> "command", out |-> command(form)]
    /\ UNCHANGED <<form, file, loaded, frames, life>>

NextCommand == Synthesize

SpecCommand == InitCommand /\ [][NextCommand]_vars

---------------------------------------------------------------------------
(* Claims about command(). *)

\* s without its leading and trailing whitespace, stated without recursion
Trimmed(s) ==
    LET keep == { i \in 1..Len(s) : s[i] \notin {" ", "\n"} }
    IN  IF keep = {} THEN <<>>
        ELSE SubSeq(s, CHOOSE i \in keep : \A j \in keep : i <= j,
                       CHOOSE i \in keep : \A j \in keep : i >= j)

Contributes(e) == e[2] /\ Trimmed(e[1]) # <<>>

RECURSIVE JoinLabels(_)
JoinLabels(es) ==
    IF es = <<>> THEN <<>> ELSE StrComma \o Trimmed(es[1][1]) \o JoinLabels(Tail(es))

SuffixClause(p) == JoinLabels(SelectSeq(p.suffixes, Contributes))

FlagClauses(p) ==
    (IF p.stylize # 2500 THEN StrStylize \o Display(p.stylize) ELSE <<>>)
    \o (IF ~(p.aspect_w = 1 /\ p.aspect_h = 1)
        THEN StrAr \o Display(p.aspect_w) \o StrColon \o Display(p.aspect_h) ELSE <<>>)
    \o (IF p.video THEN StrVideo ELSE <<>>)
    \o (IF p.use_seed THEN StrSameseed \o Display(p.seed) ELSE <<>>)
    \o (CASE p.algorithm = "Test" -> <<" ", "-", "-", "t", "e", "s", "t">>
          [] p.algorithm = "TestPhoto" -> <<" ", "-", "-", "t", "e", "s", "t", "p">>
          [] OTHER -> <<>>)

\* C1: the synthesized command is exactly prefix + trimmed text, then ", label"
\* for each enabled suffix with a non-empty trimmed label in sequence order,
\* then the stylize, aspect, video, seed and algorithm clauses, each present
\* iff its condition holds, in that fixed order.
C1_CommandClauses ==
    obs.kind = "command" =>
        obs.out = StrImagine \o Trimmed(form.text) \o SuffixClause(form) \o FlagClauses(form)

\* C1 witness: a synthesized command in which every clause is present
C1_Witness ==
    /\ obs.kind = "command"
    /\ Trimmed(form.text) # <<>>
    /\ Len(SelectSeq(form.suffixes, Contributes)) = 2
    /\ form.stylize # 2500 /\ form.aspect_w # 1 /\ form.video /\ form.use_seed
    /\ form.algorithm = "TestPhoto"

RemoveAt(s, i) == SubSeq(s, 1, i - 1) \o SubSeq(s, i + 1, Len(s))

\* C2: a suffix that is disabled or whose trimmed label is empty contributes
\* nothing, at any position (dropping it leaves the command unchanged), and the
\* contributing suffixes appear, in sequence order with duplicates kept,
\* between the prompt text and the flag clauses.
C2_SuffixesContribute ==
    obs.kind = "command" =>
        LET base == command([form EXCEPT !.suffixes = <<>>])
            k == Len(StrImagine) + Len(Trimmed(form.text))
        IN  /\ \A i \in 1..Len(form.suffixes) :
                   ~Contributes(form.suffixes[i]) =>
                       command([form EXCEPT !.suffixes = RemoveAt(form.suffixes, i)]) = obs.out
            /\ obs.out = SubSeq(base, 1, k) \o SuffixClause(form) \o SubSeq(base, k + 1, Len(base))

\* C2 witness: an enabled suffix whose label is only whitespace, followed by a
\* contributing one
C2_Witness ==
    /\ obs.kind = "command"
    /\ Len(form.suffixes) = 2
    /\ form.suffixes[1][2] /\ form.suffixes[1][1] # <<>> /\ Trimmed(form.suffixes[1][1]) = <<>>
    /\ Contributes(form.suffixes[2])

---------------------------------------------------------------------------
(* Claims about start-up, frames and close. *)

\* the default the specification documents
DocumentedDefault ==
    [ text           |-> <<>>,
      suffixes       |-> << <<StrRealistic, TRUE>> >>,
      algorithm      |-> "V3",
      aspect_w       |-> 1,
      aspect_h       |-> 1,
      stylize        |-> 2500,
      use_seed       |-> FALSE,
      seed           |-> 0,
      video          |-> FALSE,
      copy_on_change |-> TRUE,
      copied_command |-> <<>> ]

\* C3: when the file is missing, unreadable or malformed, start-up yields the
\* documented default: one suffix ("realistic", enabled), default algorithm,
\* aspect 1:1, stylize 2500, no seed, no video, copy-on-change, empty text and
\* empty last-copied command.
C3_FallbackIsDocumentedDefault ==
    (obs.kind = "main" /\ obs.source = "default") =>
        (pc = "running" /\ form = DocumentedDefault)

\* C4: in a frame that ends with an empty trimmed prompt text the clipboard is
\* never called and the last-copied command is left as it was, whether the
\* command changed under copy-on-change or "copy" was clicked.
C4_NoCopyOfEmptyPrompt ==
    (obs.kind = "update" /\ Trimmed(form.text) = <<>>) =>
        (obs.calls = 0 /\ form.copied_command = obs.before.copied_command)

\* C4 witness: copy-on-change is set, an earlier copy has left a status, and
\* this frame changes the command by emptying the prompt text
C4_Witness ==
    /\ obs.kind = "update"
    /\ Trimmed(form.text) = <<>>
    /\ form.copy_on_change
    /\ command(form) # command(obs.before)
    /\ obs.before.copied_command # <<>>

\* C5: with copy-on-change set after the frame's edits and a non-empty trimmed
\* prompt, the clipboard is called iff the command after the edits differs
\* from the command at the start of the frame, and at most once; with
\* copy-on-change unset it is called only on a click of "copy"; a frame that
\* leaves the command unchanged never copies automatically.
C5_CopyOnChangeOnly ==
    obs.kind = "update" =>
        /\ obs.calls \in {0, 1}
        /\ (form.copy_on_change /\ Trimmed(form.text) # <<>>) =>
               (obs.calls = 1 <=> command(form) # command(obs.before))
        /\ (~form.copy_on_change /\ obs.calls = 1) => obs.in.copy
        /\ (command(form) = command(obs.before) /\ ~obs.in.copy) => obs.calls = 0

\* C5 witness: after a copy, a frame edits the text without changing the
\* command (trailing whitespace) and nothing is copied
C5_Witness ==
    /\ obs.kind = "update"
    /\ form.copy_on_change
    /\ Trimmed(form.text) # <<>>
    /\ form.text # obs.before.text
    /\ obs.before.copied_command # <<>>
    /\ obs.calls = 0

IsPrefix(p, s) == Len(p) <= Len(s) /\ SubSeq(s, 1, Len(p)) = p

\* C7: every failure of the clipboard during a copy attempt, failure to obtain
\* the clipboard included, is recovered: the process keeps running, no field
\* but the last-copied command changes, and that one becomes an error status;
\* on success it becomes "copied command:\n" followed by the current command.
C7_ClipboardFailureRecovered ==
    (obs.kind = "update" /\ obs.calls = 1) =>
        /\ pc = "running"
        /\ [form EXCEPT !.copied_command = obs.edited.copied_command] = obs.edited
        /\ IF obs.answer = "ok"
           THEN form.copied_command = StrCopied \o command(form)
           ELSE IsPrefix(StrError, form.copied_command)

InRange(p) ==
    /\ p.aspect_w \in 1..21
    /\ p.aspect_h \in 1..10
    /\ p.stylize \in 625..60000

\* C8 as stated: in every state of the running form, whatever was loaded and
\* whatever was edited, the aspect and the stylize strength are in range.
C8_AlwaysInRange == pc = "running" => InRange(form)

\* C8 amended: if the Prompt that start-up constructed (the default, or a file
\* whose values are in range) is in range, every later state of the form is.
C8_InRangeIfLoadedInRange ==
    (pc = "running" /\ InRange(loaded)) => InRange(form)

\* C8 witness: a drag beyond the upper end of the width's range was clamped
C8_Witness ==
    /\ pc = "running"
    /\ InRange(loaded)
    /\ obs.kind = "update"
    /\ obs.in.drag_w = <<22>>
    /\ form.aspect_w = 21

\* C6: a form saved at close and loaded at the next start comes back with
\* every persisted field equal, and with empty text and empty last-copied
\* command whatever they were when it was saved.
C6_RoundTrip ==
    (obs.kind = "main" /\ obs.saved /\ obs.read) =>
        /\ pc = "running"
        /\ obs.source = "file"
        /\ \A f \in {"suffixes", "algorithm", "aspect_w", "aspect_h", "stylize",
                      "video", "copy_on_change", "use_seed", "seed"} :
               form[f] = obs.previous[f]
        /\ form.text = <<>>
        /\ form.copied_command = <<>>

\* C6 witness: the saved form had text and a last-copied command
C6_Witness ==
    /\ obs.kind = "main"
    /\ obs.saved
    /\ obs.read
    /\ obs.previous.text # <<>>
    /\ obs.previous.copied_command # <<>>

\* C9: whatever fails while the directory is created or the form is serialized
\* or written, the close handler raises no error, leaves the form unchanged
\* and returns true.
C9_CloseNeverFails ==
    obs.kind = "close" =>
        (pc = "closed" /\ obs.returned = <<TRUE>> /\ form = obs.before)

\* the rows of the frame's start, each with this frame's edit applied
RowAfterEdit(i) ==
    LET b == obs.before.suffixes[i]
        r == IF i <= Len(obs.in.rows) THEN obs.in.rows[i] ELSE IdleRow
    IN  << IF r.label # <<>> THEN r.label[1] ELSE b[1], IF r.check THEN ~b[2] ELSE b[2] >>

\* C10: in a frame the suffix list changes in length or order only by "+" and
\* "-": "+" appends ("", enabled) at the end, "-" on row r deletes the entry
\* that was at r when the frame began and keeps the order of the others, an
\* edit changes its row in place; with both, the entry at r goes and the new
\* entry is last.
C10_SuffixFrame ==
    obs.kind = "update" =>
        LET b == obs.before.suffixes
            a == form.suffixes
            n == Len(b)
            minus == { i \in 1..n : i <= Len(obs.in.rows) /\ obs.in.rows[i].minus }
            kept == IF minus = {} THEN n ELSE n - 1
        IN  /\ Len(a) = kept + (IF obs.in.plus THEN 1 ELSE 0)
            /\ obs.in.plus => a[Len(a)] = << <<>>, TRUE >>
            /\ \A i \in 1..kept :
                   a[i] = RowAfterEdit(IF \E r \in minus : \A q \in minus : q <= r /\ r <= i
                                       THEN i + 1 ELSE i)

\* C10 witness: "+" and "-" on the first of two rows in one frame
C10_Witness ==
    /\ obs.kind = "update"
    /\ Len(obs.before.suffixes) = 2
    /\ obs.before.suffixes[1] # obs.before.suffixes[2]
    /\ obs.in.plus
    /\ obs.in.rows[1].minus

=============================================================================
